---- MODULE Spec2Model ----
(***************************************************************************)
(* A model of src/src/ClusterAnalysisTool.jsx: the React component         *)
(* ClusterAnalysisTool, its seven state cells, its event handlers and the  *)
(* pure computations they call (calculateClusterStats, getRadarData,       *)
(* suggestApproach, the document built by generateSpec).                   *)
(*                                                                         *)
(* Numbers.  Every metric value of a row is an integer number of           *)
(* thousandths (0.125 is 125, 40 cuts per minute is 40000).  An average is *)
(* the exact fraction [num, den] = sum / length; the rounding of IEEE      *)
(* doubles is not modelled.  Strings typed by the user are sequences of    *)
(* one-character strings, so that trim() is computed.  A cluster id is the *)
(* string under which the JS object keeps it (String(row.cluster)); with   *)
(* dynamicTyping a numeric-looking cell is a number and every other cell a *)
(* string, so the key determines the value.                                *)
(***************************************************************************)
EXTENDS Integers, Sequences, FiniteSets, TLC

VARIABLES
    interpretationData,   \* useState(null), line 7: <<>> is null, <<t>> is table t
    clusterResults,       \* useState(null), line 8
    clusterStats,         \* useState(null), line 9: <<>> is null, <<s>> is list s
    selectedCluster,      \* useState(null), line 10
    generationSpecs,      \* useState({}), line 11: key -> GenerationSpec
    selectedApproaches,   \* useState({}), line 12: key -> approach
    trendTokens,          \* useState({}), line 13: key -> list of tokens
    pending,              \* Papa.parse calls whose callback has not run yet
    event                 \* the handler that ran last and how it ended

vars == <<interpretationData, clusterResults, clusterStats, selectedCluster,
          generationSpecs, selectedApproaches, trendTokens, pending, event>>

----------------------------------------------------------------------------
(* Values *)

\* JS null / undefined for a state cell, and a present value
Null == <<>>
Some(x) == <<x>>
IsNull(cell) == cell = <<>>
Val(cell) == cell[1]

\* a metric cell that is absent from the row (undefined or null)
Missing == -1

\* the cell pushed as it is, without `|| 0'
AsIs(v) == v

\* row.field || 0, lines 54-58: a falsy cell (absent, or 0) contributes 0
OrZero(v) == IF v = Missing \/ v = 0 THEN 0 ELSE v

\* the five metric columns of the interpretation table, lines 54-58
MetricFields == {"motion_mean", "cut_rate_per_min", "audio_rms_mean",
                 "audio_rms_std", "visual_density"}

\* cluster cells that dynamicTyping (line 18) turns into numbers; every other
\* cell stays a string
NumericIds == {"1", "2", "10", "-1"}

IsNumeric(c) == c \in NumericIds

\* the number that `a.cluster - b.cluster' (line 84) works on, for a numeric id
ToNumber(c) ==
    CASE c = "1" -> 1
      [] c = "2" -> 2
      [] c = "10" -> 10
      [] c = "-1" -> -1

\* keys that are array indices: an object enumerates them first, ascending
IsIndexKey(c) == c \in {"1", "2", "10"}

\* names every object literal {} inherits from Object.prototype: the lookup
\* clusterGroups[cluster] of line 39 finds them without any row having
\* created them ("constructor" stands for toString, valueOf, __proto__, ...)
ObjectPrototypeKeys == {"constructor"}

----------------------------------------------------------------------------
(* Exact fractions *)

Rat(n, d) == [num |-> n, den |-> d]

RatLess(a, b) == a.num * b.den < b.num * a.den

RatEq(a, b) == a.num * b.den = b.num * a.den

\* a threshold comparison that also accepts the threshold itself: a >= t
RatGreaterOrEqual(a, t) == a.num >= t * a.den

\* a > t for a threshold t given in thousandths
RatGreater(a, t) == a.num > t * a.den

\* Math.round of a non-negative fraction of thousandths: to the nearest whole
\* unit, a half goes up
MathRound(a) == (2 * a.num + 1000 * a.den) \div (2 * 1000 * a.den)

\* Math.round(x * 10), line 196
MathRoundTimes10(a) == (2 * 10 * a.num + 1000 * a.den) \div (2 * 1000 * a.den)

\* x.toFixed(2): the number of hundredths printed, a half goes up
ToFixed2(a) == (2 * a.num + 10 * a.den) \div (2 * 10 * a.den)

\* x.toFixed(3): the number of thousandths printed
ToFixed3(a) == (2 * a.num + a.den) \div (2 * a.den)

----------------------------------------------------------------------------
(* calculateClusterStats, lines 34-85 *)

RECURSIVE SumSeq(_)
\* arr.reduce((a, b) => a + b, 0), line 62
SumSeq(arr) == IF arr = <<>> THEN 0 ELSE arr[1] + SumSeq(Tail(arr))

\* avg, line 62
Avg(arr) == Rat(SumSeq(arr), Len(arr))

\* Math.min(...arr), line 63
MinOf(arr) == CHOOSE x \in {arr[i] : i \in 1..Len(arr)} :
                  \A j \in 1..Len(arr) : x <= arr[j]

\* Math.max(...arr), line 64
MaxOf(arr) == CHOOSE x \in {arr[i] : i \in 1..Len(arr)} :
                  \A j \in 1..Len(arr) : x >= arr[j]

\* a group created with count: 1, which line 52 then increments
NewGroupCountOne(c) ==
    [cluster |-> c, count |-> 1, videos |-> <<>>, motion_values |-> <<>>,
     cut_rate_values |-> <<>>, audio_rms_mean_values |-> <<>>,
     audio_rms_std_values |-> <<>>, visual_density_values |-> <<>>]

\* a fresh group, lines 40-49
NewGroup(c) ==
    [cluster |-> c, count |-> 0, videos |-> <<>>, motion_values |-> <<>>,
     cut_rate_values |-> <<>>, audio_rms_mean_values |-> <<>>,
     audio_rms_std_values |-> <<>>, visual_density_values |-> <<>>]

\* lines 52-58 for one row on its group
PushRow(g, row) ==
    [g EXCEPT !.count = @ + 1,
              !.videos = Append(@, row),
              !.motion_values = Append(@, OrZero(row.motion_mean)),
              !.cut_rate_values = Append(@, OrZero(row.cut_rate_per_min)),
              !.audio_rms_mean_values = Append(@, OrZero(row.audio_rms_mean)),
              !.audio_rms_std_values = Append(@, OrZero(row.audio_rms_std)),
              !.visual_density_values = Append(@, OrZero(row.visual_density))]

\* clusterGroups: its own keys in creation order, and the group of each key
EmptyGroups == [order |-> <<>>, group |-> <<>>]

HasOwnGroup(groups, c) == \E i \in 1..Len(groups.order) : groups.order[i] = c

GroupOf(groups, c) ==
    groups.group[CHOOSE i \in 1..Len(groups.order) : groups.order[i] = c]

\* the body of the forEach callback, lines 38-58, for a row whose cluster is
\* no inherited name
AddRow(groups, row) ==
    LET c == row.cluster
        withGroup == IF HasOwnGroup(groups, c) THEN groups
                     ELSE [order |-> Append(groups.order, c),
                           group |-> Append(groups.group, NewGroup(c))]
        i == CHOOSE k \in 1..Len(withGroup.order) : withGroup.order[k] = c
    IN [withGroup EXCEPT !.group[i] = PushRow(@, row)]

RECURSIVE ForEachRow(_, _)
\* data.forEach(...), lines 37-59
ForEachRow(data, groups) ==
    IF data = <<>> THEN groups
    ELSE ForEachRow(Tail(data), AddRow(groups, data[1]))

\* line 39 reads clusterGroups[cluster] through the prototype chain: for an
\* inherited name it is truthy, no group is created, and line 53 calls push
\* on the undefined `videos` of the inherited value: a TypeError leaves
\* calculateClusterStats before line 84
CalcThrows(data) ==
    \E i \in 1..Len(data) : data[i].cluster \in ObjectPrototypeKeys

\* the object of lines 66-81 for one group
StatsOfGroup(g) ==
    [cluster |-> g.cluster,
     count |-> g.count,
     avg_motion |-> Avg(g.motion_values),
     min_motion |-> MinOf(g.motion_values),
     max_motion |-> MaxOf(g.motion_values),
     avg_cut_rate |-> Avg(g.cut_rate_values),
     min_cut_rate |-> MinOf(g.cut_rate_values),
     max_cut_rate |-> MaxOf(g.cut_rate_values),
     avg_audio_rms_mean |-> Avg(g.audio_rms_mean_values),
     avg_audio_rms_std |-> Avg(g.audio_rms_std_values),
     avg_visual_density |-> Avg(g.visual_density_values),
     min_visual_density |-> MinOf(g.visual_density_values),
     max_visual_density |-> MaxOf(g.visual_density_values),
     videos |-> g.videos]

RECURSIVE AscendingKeys(_)
\* the index keys of an object, which it enumerates in ascending order
AscendingKeys(keys) ==
    IF keys = {} THEN <<>>
    ELSE LET m == CHOOSE k \in keys : \A o \in keys : ToNumber(k) <= ToNumber(o)
         IN <<m>> \o AscendingKeys(keys \ {m})

\* Object.values(clusterGroups), line 61: index keys ascending, then the
\* other keys in creation order
ObjectValues(groups) ==
    LET keys == {groups.order[i] : i \in 1..Len(groups.order)}
        ints == AscendingKeys({k \in keys : IsIndexKey(k)})
        strs == SelectSeq(groups.order, LAMBDA k : ~IsIndexKey(k))
        ord == ints \o strs
    IN [i \in 1..Len(ord) |-> GroupOf(groups, ord[i])]

\* the comparator written the wrong way round: b.cluster - a.cluster
CompareFnDescending(a, b) ==
    IF ~IsNumeric(a.cluster) \/ ~IsNumeric(b.cluster) THEN 0
    ELSE IF ToNumber(a.cluster) < ToNumber(b.cluster) THEN 1
    ELSE IF ToNumber(a.cluster) > ToNumber(b.cluster) THEN -1
    ELSE 0

\* the sign of (a, b) => a.cluster - b.cluster, line 84; NaN counts as 0
CompareFn(a, b) ==
    IF ~IsNumeric(a.cluster) \/ ~IsNumeric(b.cluster) THEN 0
    ELSE IF ToNumber(a.cluster) < ToNumber(b.cluster) THEN -1
    ELSE IF ToNumber(a.cluster) > ToNumber(b.cluster) THEN 1
    ELSE 0

\* e goes after the elements of the sorted s that do not follow it
InsertSorted(s, e) ==
    LET k == Cardinality({i \in 1..Len(s) : CompareFn(s[i], e) <= 0})
    IN SubSeq(s, 1, k) \o <<e>> \o SubSeq(s, k + 1, Len(s))

RECURSIVE StableSort(_)
\* Array.prototype.sort with a consistent comparator: the stable order
StableSort(s) ==
    IF s = <<>> THEN <<>>
    ELSE InsertSorted(StableSort(SubSeq(s, 1, Len(s) - 1)), s[Len(s)])

\* the comparator is consistent on s: `compares equal' is transitive
ConsistentCompare(s) ==
    \A i, j, k \in 1..Len(s) :
        (CompareFn(s[i], s[j]) = 0 /\ CompareFn(s[j], s[k]) = 0)
            => CompareFn(s[i], s[k]) = 0

Reorderings(s) ==
    {[i \in 1..Len(s) |-> s[p[i]]] :
        p \in {q \in [1..Len(s) -> 1..Len(s)] :
                  \A i, j \in 1..Len(s) : q[i] = q[j] => i = j}}

\* stats.sort(...), line 84: for an inconsistent comparator the language
\* leaves the order to the implementation
SortOutcomes(s) ==
    IF ConsistentCompare(s) THEN {StableSort(s)} ELSE Reorderings(s)

\* lines 61-82: Object.values(clusterGroups).map(...)
MapStats(groups) ==
    LET vals == ObjectValues(groups)
    IN [i \in 1..Len(vals) |-> StatsOfGroup(vals[i])]

\* the lists calculateClusterStats may pass to setClusterStats, line 84, for
\* a table on which it does not throw
calculateClusterStats(data) ==
    SortOutcomes(MapStats(ForEachRow(data, EmptyGroups)))

----------------------------------------------------------------------------
(* getRadarData, lines 253-277, and suggestApproach, lines 109-147 *)

RECURSIVE Gcd(_, _)
Gcd(a, b) == IF b = 0 THEN a ELSE Gcd(b, a % b)

\* the same fraction in lowest terms (keeps the products below small)
Reduce(r) ==
    LET g == Gcd(r.num, r.den)
    IN IF g = 0 THEN r ELSE Rat(r.num \div g, r.den \div g)

\* a double that is NaN
NaN == Rat(0, 0)
IsNaN(r) == r.den = 0

\* Math.min(...values) and Math.max(...values) over fractions, lines 264-265
RatMin(values) == CHOOSE x \in {values[i] : i \in 1..Len(values)} :
                      \A j \in 1..Len(values) : ~RatLess(values[j], x)

RatMax(values) == CHOOSE x \in {values[i] : i \in 1..Len(values)} :
                      \A j \in 1..Len(values) : ~RatLess(x, values[j])

\* a normalize that scales by the maximum alone: value / max * 100
normalizeByMax(value, values) ==
    IF values = <<>> THEN NaN
    ELSE LET min == RatMin(values)
             max == RatMax(values)
         IN IF RatEq(max, min) THEN Rat(50, 1)
            ELSE LET q == Reduce(Rat(value.num * max.den, value.den * max.num))
                 IN Rat(q.num * 100, q.den)

\* a normalize that puts equal values at the top of the scale: 100 when
\* max === min
normalizeEqualToTop(value, values) ==
    IF values = <<>> THEN NaN
    ELSE LET min == RatMin(values)
             max == RatMax(values)
         IN IF RatEq(max, min) THEN Rat(100, 1)
            ELSE LET dv == Reduce(Rat(value.num * min.den - min.num * value.den,
                                      value.den * min.den))
                     dm == Reduce(Rat(max.num * min.den - min.num * max.den,
                                      max.den * min.den))
                     q == Reduce(Rat(dv.num * dm.den, dv.den * dm.num))
                 IN Rat(q.num * 100, q.den)

\* normalize, lines 263-268.  Of an empty list Math.min is Infinity and
\* Math.max is -Infinity, so the quotient is NaN.
normalize(value, values) ==
    IF values = <<>> THEN NaN
    ELSE LET min == RatMin(values)
             max == RatMax(values)
         IN IF RatEq(max, min) THEN Rat(50, 1)
            ELSE LET dv == Reduce(Rat(value.num * min.den - min.num * value.den,
                                      value.den * min.den))
                     dm == Reduce(Rat(max.num * min.den - min.num * max.den,
                                      max.den * min.den))
                     q == Reduce(Rat(dv.num * dm.den, dv.den * dm.num))
                 IN Rat(q.num * 100, q.den)

\* clusterStats.map(s => s.field), lines 257-261
Column(list, field) == [i \in 1..Len(list) |-> list[i][field]]

\* getRadarData, lines 253-277, on the clusterStats of the current render
getRadarData(stats) ==
    IF IsNull(clusterStats) THEN <<>>
    ELSE LET list == Val(clusterStats)
         IN << [metric |-> "Motion",
                value |-> normalize(stats.avg_motion, Column(list, "avg_motion"))],
               [metric |-> "Cut Rate",
                value |-> normalize(stats.avg_cut_rate, Column(list, "avg_cut_rate"))],
               [metric |-> "Visual Density",
                value |-> normalize(stats.avg_visual_density,
                                    Column(list, "avg_visual_density"))],
               [metric |-> "Audio Volume",
                value |-> normalize(stats.avg_audio_rms_mean,
                                    Column(list, "avg_audio_rms_mean"))],
               [metric |-> "Audio Variance",
                value |-> normalize(stats.avg_audio_rms_std,
                                    Column(list, "avg_audio_rms_std"))] >>

\* radarData.find(d => d.metric === name)?.value || 0, lines 114-118
FindValue(radarData, name) ==
    IF \E i \in 1..Len(radarData) : radarData[i].metric = name
    THEN LET v == radarData[CHOOSE i \in 1..Len(radarData) :
                                radarData[i].metric = name].value
         IN IF IsNaN(v) \/ v.num = 0 THEN Rat(0, 1) ELSE v
    ELSE Rat(0, 1)

\* v > n and v < n for a normalized value v and a whole number n
Above(v, n) == v.num > n * v.den
Below(v, n) == v.num < n * v.den

\* the cascade with the visual-density rule of line 127 tested first
CascadeDensityFirst(metrics) ==
    IF Above(metrics.visualDensity, 70)
    THEN [approach |-> "image-conditioned", confidence |-> "high",
          reason |-> "Strong visual composition and density"]
    ELSE IF Above(metrics.motion, 60) /\ Above(metrics.cutRate, 60)
    THEN [approach |-> "motion-focused", confidence |-> "high",
          reason |-> "High motion + fast cuts = movement-driven content"]
    ELSE IF Above(metrics.visualDensity, 50) /\ Below(metrics.motion, 40)
    THEN [approach |-> "image-conditioned", confidence |-> "medium",
          reason |-> "Visual-focused with minimal movement"]
    ELSE IF Above(metrics.motion, 70)
    THEN [approach |-> "motion-focused", confidence |-> "medium",
          reason |-> "Significant camera/subject movement"]
    ELSE IF Above(metrics.audioVariance, 70) \/ Above(metrics.audioVolume, 70)
    THEN [approach |-> "text-driven", confidence |-> "medium",
          reason |-> "Distinctive audio characteristics suggest narrative/thematic content"]
    ELSE [approach |-> "text-driven", confidence |-> "low",
          reason |-> "Balanced metrics - best suited for conceptual/thematic generation"]

\* the cascade of lines 121-146 on the five values of lines 113-119
Cascade(metrics) ==
    IF Above(metrics.motion, 60) /\ Above(metrics.cutRate, 60)
    THEN [approach |-> "motion-focused", confidence |-> "high",
          reason |-> "High motion + fast cuts = movement-driven content"]
    ELSE IF Above(metrics.visualDensity, 70)
    THEN [approach |-> "image-conditioned", confidence |-> "high",
          reason |-> "Strong visual composition and density"]
    ELSE IF Above(metrics.visualDensity, 50) /\ Below(metrics.motion, 40)
    THEN [approach |-> "image-conditioned", confidence |-> "medium",
          reason |-> "Visual-focused with minimal movement"]
    ELSE IF Above(metrics.motion, 70)
    THEN [approach |-> "motion-focused", confidence |-> "medium",
          reason |-> "Significant camera/subject movement"]
    ELSE IF Above(metrics.audioVariance, 70) \/ Above(metrics.audioVolume, 70)
    THEN [approach |-> "text-driven", confidence |-> "medium",
          reason |-> "Distinctive audio characteristics suggest narrative/thematic content"]
    ELSE [approach |-> "text-driven", confidence |-> "low",
          reason |-> "Balanced metrics - best suited for conceptual/thematic generation"]

\* lines 113-119
RadarMetrics(radarData) ==
    [motion |-> FindValue(radarData, "Motion"),
     cutRate |-> FindValue(radarData, "Cut Rate"),
     visualDensity |-> FindValue(radarData, "Visual Density"),
     audioVolume |-> FindValue(radarData, "Audio Volume"),
     audioVariance |-> FindValue(radarData, "Audio Variance")]

\* suggestApproach, lines 109-147.  Line 110 returns the bare string
\* 'text-driven', not an object: its .approach, .confidence and .reason, the
\* fields every caller reads (lines 368-389), are undefined.
suggestApproach(stats) ==
    IF IsNull(clusterStats)
    THEN [approach |-> "undefined", confidence |-> "undefined",
          reason |-> "undefined"]
    ELSE Cascade(RadarMetrics(getRadarData(stats)))

----------------------------------------------------------------------------
(* Trend tokens and approaches *)

\* the three buttons of line 399
Approaches == {"text-driven", "image-conditioned", "motion-focused"}

\* `current.length >= 3`, line 160
MaxTokens == 3

RECURSIVE TrimStart(_)
TrimStart(t) == IF t # <<>> /\ t[1] = " " THEN TrimStart(Tail(t)) ELSE t

RECURSIVE TrimEnd(_)
TrimEnd(t) ==
    IF t # <<>> /\ t[Len(t)] = " " THEN TrimEnd(SubSeq(t, 1, Len(t) - 1)) ELSE t

\* token.trim(), lines 158, 161, 164
Trim(t) == TrimEnd(TrimStart(t))

\* trendTokens[cluster] || [], lines 159, 169, 181
TokensOf(cluster) ==
    IF cluster \in DOMAIN trendTokens THEN trendTokens[cluster] ELSE <<>>

\* current.includes(x), line 161
Includes(current, x) == \E i \in 1..Len(current) : current[i] = x

\* current.filter((_, i) => i !== index), line 172, index counted from 0
FilterIndex(current, index) ==
    LET keep == {i \in 1..Len(current) : i - 1 # index}
        pos(k) == CHOOSE i \in keep : Cardinality({j \in keep : j < i}) = k - 1
    IN [k \in 1..Cardinality(keep) |-> current[pos(k)]]

\* {...prev, [key]: value}, lines 150, 162-165, 170-173, 234
Put(map, key, value) ==
    [k \in DOMAIN map \cup {key} |-> IF k = key THEN value ELSE map[k]]

\* !selectedApproaches[cluster], line 468
NoApproach(cluster) == cluster \notin DOMAIN selectedApproaches

----------------------------------------------------------------------------
(* The document of generateSpec, lines 183-232 *)

\* selectedApproaches[cluster] || 'text-driven', line 180
ApproachOrDefault(cluster) ==
    IF cluster \in DOMAIN selectedApproaches THEN selectedApproaches[cluster]
    ELSE "text-driven"

\* a raw value of the table as a fraction
Whole(v) == Rat(v, 1)

\* lines 183-232; a range `a - b' of a template string is the pair <<a, b>>
BuildSpec(cluster, stats, approach, tokens) ==
    [cluster_id |-> cluster,
     generation_approach |-> approach,
     base_prompt_components |->
       [visual_style |->
          [visual_complexity |->
             IF RatGreater(stats.avg_visual_density, 600) THEN "high"
             ELSE IF RatGreater(stats.avg_visual_density, 300) THEN "medium"
             ELSE "low",
           detail_level |->
             IF RatGreater(stats.avg_visual_density, 500) THEN "detailed"
             ELSE "simplified",
           consistency |-> "within_cluster_variance"],
        motion_profile |->
          [camera_movement |->
             IF RatGreater(stats.avg_motion, 600) THEN "dynamic"
             ELSE IF RatGreater(stats.avg_motion, 300) THEN "moderate"
             ELSE "static",
           motion_intensity |-> MathRoundTimes10(stats.avg_motion),
           motion_range |-> <<ToFixed2(Whole(stats.min_motion)),
                              ToFixed2(Whole(stats.max_motion))>>,
           pacing |->
             IF RatGreater(stats.avg_cut_rate, 120000) THEN "fast"
             ELSE IF RatGreater(stats.avg_cut_rate, 60000) THEN "medium"
             ELSE "slow",
           cuts_per_minute |-> MathRound(stats.avg_cut_rate),
           cut_rate_range |-> <<MathRound(Whole(stats.min_cut_rate)),
                                MathRound(Whole(stats.max_cut_rate))>>],
        audio_profile |->
          [volume_level |->
             IF RatGreater(stats.avg_audio_rms_mean, 500) THEN "high"
             ELSE IF RatGreater(stats.avg_audio_rms_mean, 250) THEN "medium"
             ELSE "low",
           dynamic_range |->
             IF RatGreater(stats.avg_audio_rms_std, 300) THEN "high"
             ELSE IF RatGreater(stats.avg_audio_rms_std, 150) THEN "medium"
             ELSE "low",
           audio_rms_mean |-> ToFixed3(stats.avg_audio_rms_mean),
           audio_rms_std |-> ToFixed3(stats.avg_audio_rms_std)]],
     trend_tokens |->
       [enabled |-> Len(tokens) > 0,
        tokens |-> tokens,
        usage_note |-> "Optional 1-3 word modifiers appended to base prompt to reflect current trends within cluster",
        application_strategy |-> "Randomly select 0-2 tokens per generation for variance"],
     constraints |->
       [sample_count |-> stats.count,
        variation_strategy |->
          IF approach = "image-conditioned" THEN "vary_seed_image"
          ELSE IF approach = "motion-focused" THEN "vary_motion_parameters"
          ELSE "vary_text_prompt"],
     generation_hints |->
       IF approach = "image-conditioned"
       THEN [note |-> "Use representative frames from cluster as seed images. Apply trend tokens to text conditioning."]
       ELSE IF approach = "motion-focused"
       THEN [note |-> "Emphasize camera movement and subject motion. Trend tokens can guide motion style variations."]
       ELSE [note |-> "Focus on thematic and conceptual elements. Trend tokens add current flavor to base themes."]]

----------------------------------------------------------------------------
(* The handlers *)

Event(op, outcome) == [op |-> op, outcome |-> outcome]

\* the cards of line 348: one per entry of clusterStats, inside `clusterStats &&'
Rendered(cluster) ==
    /\ ~IsNull(clusterStats)
    /\ \E i \in 1..Len(Val(clusterStats)) : Val(clusterStats)[i].cluster = cluster

\* clusterStats.find(s => s.cluster === cluster), line 177
FindStats(cluster) ==
    LET list == Val(clusterStats)
        hits == {i \in 1..Len(list) : list[i].cluster = cluster}
    IN IF hits = {} THEN Null
       ELSE Some(list[CHOOSE i \in hits : \A j \in hits : i <= j])

\* handleFileUpload, lines 15-32, up to the return of Papa.parse: the file
\* is read and parsed in the background
handleFileUpload(file, type) ==
    /\ pending' = pending \cup {[file |-> file, type |-> type]}
    /\ event' = Event("handleFileUpload", "parsing")
    /\ UNCHANGED <<interpretationData, clusterResults, clusterStats,
                   selectedCluster, generationSpecs, selectedApproaches,
                   trendTokens>>

\* a complete callback that empties the spec store when a new
\* interpretation table arrives
completeClearsSpecs(job) ==
    /\ job \in pending
    /\ job.file.ok
    /\ pending' = pending \ {job}
    /\ IF job.type = "interpretation"
       THEN /\ interpretationData' = Some(job.file.data)
            /\ generationSpecs' = <<>>
            /\ IF CalcThrows(job.file.data)
               THEN /\ UNCHANGED clusterStats
                    /\ event' = Event("complete", "threw")
               ELSE /\ \E stats \in calculateClusterStats(job.file.data) :
                           clusterStats' = Some(stats)
                    /\ event' = Event("complete", "interpretation")
            /\ UNCHANGED clusterResults
       ELSE /\ clusterResults' = Some(job.file.data)
            /\ event' = Event("complete", "cluster")
            /\ UNCHANGED <<interpretationData, clusterStats, generationSpecs>>
    /\ UNCHANGED <<selectedCluster, selectedApproaches, trendTokens>>

\* the complete callback, lines 20-27, for a file that Papa could read
complete(job) ==
    /\ job \in pending
    /\ job.file.ok
    /\ pending' = pending \ {job}
    /\ IF job.type = "interpretation"
       THEN /\ interpretationData' = Some(job.file.data)
            /\ IF CalcThrows(job.file.data)
               THEN /\ UNCHANGED clusterStats
                    /\ event' = Event("complete", "threw")
               ELSE /\ \E stats \in calculateClusterStats(job.file.data) :
                           clusterStats' = Some(stats)
                    /\ event' = Event("complete", "interpretation")
            /\ UNCHANGED clusterResults
       ELSE /\ clusterResults' = Some(job.file.data)
            /\ event' = Event("complete", "cluster")
            /\ UNCHANGED <<interpretationData, clusterStats>>
    /\ UNCHANGED <<selectedCluster, generationSpecs, selectedApproaches,
                   trendTokens>>

\* an error callback that also clears the loaded statistics
errorClearsStats(job) ==
    /\ job \in pending
    /\ ~job.file.ok
    /\ pending' = pending \ {job}
    /\ event' = Event("error", "logged")
    /\ clusterStats' = Null
    /\ UNCHANGED <<interpretationData, clusterResults, selectedCluster,
                   generationSpecs, selectedApproaches, trendTokens>>

\* the error callback, lines 28-30, for a file that Papa could not read:
\* console.error and nothing else
error(job) ==
    /\ job \in pending
    /\ ~job.file.ok
    /\ pending' = pending \ {job}
    /\ event' = Event("error", "logged")
    /\ UNCHANGED <<interpretationData, clusterResults, clusterStats,
                   selectedCluster, generationSpecs, selectedApproaches,
                   trendTokens>>

\* handleApproachChange, lines 149-151, from a button of lines 400-410
handleApproachChange(cluster, approach) ==
    /\ Rendered(cluster)
    /\ selectedApproaches' = Put(selectedApproaches, cluster, approach)
    /\ event' = Event("handleApproachChange", "done")
    /\ UNCHANGED <<interpretationData, clusterResults, clusterStats,
                   selectedCluster, generationSpecs, trendTokens, pending>>

\* handleTrendTokensChange, lines 153-155, is passed to no element and called
\* by no handler: it never runs and has no action.

\* addTrendToken storing the token as typed: [...current, token]
addTrendTokenUntrimmed(cluster, token) ==
    /\ Rendered(cluster)
    /\ LET current == TokensOf(cluster)
       IN IF Trim(token) = <<>>
          THEN /\ event' = Event("addTrendToken", "empty")
               /\ UNCHANGED trendTokens
          ELSE IF Len(current) >= MaxTokens
          THEN /\ event' = Event("addTrendToken", "full")
               /\ UNCHANGED trendTokens
          ELSE IF Includes(current, Trim(token))
          THEN /\ event' = Event("addTrendToken", "duplicate")
               /\ UNCHANGED trendTokens
          ELSE /\ event' = Event("addTrendToken", "added")
               /\ trendTokens' = Put(trendTokens, cluster, Append(current, token))
    /\ UNCHANGED <<interpretationData, clusterResults, clusterStats,
                   selectedCluster, generationSpecs, selectedApproaches, pending>>

\* addTrendToken without the length test of line 160
addTrendTokenNoCap(cluster, token) ==
    /\ Rendered(cluster)
    /\ LET current == TokensOf(cluster)
       IN IF Trim(token) = <<>>
          THEN /\ event' = Event("addTrendToken", "empty")
               /\ UNCHANGED trendTokens
          ELSE IF Includes(current, Trim(token))
          THEN /\ event' = Event("addTrendToken", "duplicate")
               /\ UNCHANGED trendTokens
          ELSE /\ event' = Event("addTrendToken", "added")
               /\ trendTokens' = Put(trendTokens, cluster,
                                     Append(current, Trim(token)))
    /\ UNCHANGED <<interpretationData, clusterResults, clusterStats,
                   selectedCluster, generationSpecs, selectedApproaches, pending>>

\* addTrendToken, lines 157-166, from the input of lines 423-444
addTrendToken(cluster, token) ==
    /\ Rendered(cluster)
    /\ LET current == TokensOf(cluster)
       IN IF Trim(token) = <<>>
          THEN /\ event' = Event("addTrendToken", "empty")
               /\ UNCHANGED trendTokens
          ELSE IF Len(current) >= MaxTokens
          THEN /\ event' = Event("addTrendToken", "full")
               /\ UNCHANGED trendTokens
          ELSE IF Includes(current, Trim(token))
          THEN /\ event' = Event("addTrendToken", "duplicate")
               /\ UNCHANGED trendTokens
          ELSE /\ event' = Event("addTrendToken", "added")
               /\ trendTokens' = Put(trendTokens, cluster,
                                     Append(current, Trim(token)))
    /\ UNCHANGED <<interpretationData, clusterResults, clusterStats,
                   selectedCluster, generationSpecs, selectedApproaches, pending>>

\* removeTrendToken, lines 168-174, from the button of lines 454-459, which
\* exists for each token shown (line 448)
removeTrendToken(cluster, index) ==
    /\ Rendered(cluster)
    /\ index \in 0..(Len(TokensOf(cluster)) - 1)
    /\ trendTokens' = Put(trendTokens, cluster,
                          FilterIndex(TokensOf(cluster), index))
    /\ event' = Event("removeTrendToken", "done")
    /\ UNCHANGED <<interpretationData, clusterResults, clusterStats,
                   selectedCluster, generationSpecs, selectedApproaches, pending>>

\* a generateSpec that keeps the tokens of the spec it replaces in front of
\* the current ones
generateSpecMerging(cluster) ==
    LET stats == FindStats(cluster)
        kept == IF cluster \in DOMAIN generationSpecs
                THEN generationSpecs[cluster].trend_tokens.tokens
                ELSE <<>>
    IN /\ IF IsNull(stats)
          THEN /\ event' = Event("generateSpec", "notfound")
               /\ UNCHANGED <<generationSpecs, selectedCluster>>
          ELSE /\ generationSpecs' =
                      Put(generationSpecs, cluster,
                          BuildSpec(cluster, Val(stats),
                                    ApproachOrDefault(cluster),
                                    kept \o TokensOf(cluster)))
               /\ selectedCluster' = Some(cluster)
               /\ event' = Event("generateSpec", "built")
       /\ UNCHANGED <<interpretationData, clusterResults, clusterStats,
                      selectedApproaches, trendTokens, pending>>

\* generateSpec, lines 176-236
generateSpec(cluster) ==
    LET stats == FindStats(cluster)
    IN /\ IF IsNull(stats)
          THEN /\ event' = Event("generateSpec", "notfound")
               /\ UNCHANGED <<generationSpecs, selectedCluster>>
          ELSE /\ generationSpecs' =
                      Put(generationSpecs, cluster,
                          BuildSpec(cluster, Val(stats),
                                    ApproachOrDefault(cluster), TokensOf(cluster)))
               /\ selectedCluster' = Some(cluster)
               /\ event' = Event("generateSpec", "built")
       /\ UNCHANGED <<interpretationData, clusterResults, clusterStats,
                      selectedApproaches, trendTokens, pending>>

\* the button without its `disabled' attribute of line 468
clickGenerateSpecEnabled(cluster) ==
    /\ Rendered(cluster)
    /\ generateSpec(cluster)

\* a click on the button of lines 466-476: disabled, it runs no handler
clickGenerateSpec(cluster) ==
    /\ Rendered(cluster)
    /\ IF NoApproach(cluster)
       THEN /\ event' = Event("clickGenerateSpec", "disabled")
            /\ UNCHANGED <<interpretationData, clusterResults, clusterStats,
                           selectedCluster, generationSpecs, selectedApproaches,
                           trendTokens, pending>>
       ELSE generateSpec(cluster)

\* exportSpecs, lines 238-251, from the button of lines 518-527: a download
\* of JSON.stringify(generationSpecs); no state cell is written
exportSpecs ==
    /\ DOMAIN generationSpecs # {}
    /\ UNCHANGED vars

\* lines 7-13
Init ==
    /\ interpretationData = Null
    /\ clusterResults = Null
    /\ clusterStats = Null
    /\ selectedCluster = Null
    /\ generationSpecs = <<>>
    /\ selectedApproaches = <<>>
    /\ trendTokens = <<>>
    /\ pending = {}
    /\ event = Event("mount", "done")

----------------------------------------------------------------------------
(* Inputs of a session *)

Row(c, motion, cut, rms, std, dens) ==
    [cluster |-> c, motion_mean |-> motion, cut_rate_per_min |-> cut,
     audio_rms_mean |-> rms, audio_rms_std |-> std, visual_density |-> dens]

\* a file Papa parses to the table `data', and a file it cannot read
Readable(data) == [ok |-> TRUE, data |-> data]
Unreadable == [ok |-> FALSE, data |-> <<>>]

\* the most Papa.parse calls in flight at once
MaxPending == 1

\* interpretation files a user picks in a session
SessionTables ==
    { <<Row("2", 125, 20000, 100, 50, 700), Row("1", 700, 130000, 600, 350, 200)>>,
      <<Row("2", 300, 40000, Missing, Missing, 300)>>,
      <<Row("constructor", 300, 40000, 100, 50, 300)>> }

\* the cluster-assignment file
ClusterTable == <<[video |-> "v1", cluster |-> "1"]>>

\* what the user types into the token input of lines 423-433
SessionTokens == { <<>>, <<"a">>, <<" ", "a">> }

\* the approach buttons the user clicks in a session
SessionApproaches == {"motion-focused"}

\* every cluster id a card can show in a session
SessionClusters == {"1", "2"}

Next ==
    \/ \E data \in SessionTables :
          /\ Cardinality(pending) < MaxPending
          /\ handleFileUpload(Readable(data), "interpretation")
    \/ /\ Cardinality(pending) < MaxPending
       /\ handleFileUpload(Unreadable, "interpretation")
    \/ /\ Cardinality(pending) < MaxPending
       /\ handleFileUpload(Readable(ClusterTable), "cluster")
    \/ \E job \in pending : complete(job)
    \/ \E job \in pending : error(job)
    \/ \E c \in SessionClusters, a \in SessionApproaches : handleApproachChange(c, a)
    \/ \E c \in SessionClusters, t \in SessionTokens : addTrendToken(c, t)
    \/ \E c \in SessionClusters, i \in 0..(MaxTokens - 1) : removeTrendToken(c, i)
    \/ \E c \in SessionClusters : clickGenerateSpec(c)
    \/ exportSpecs

Spec == Init /\ [][Next]_vars

----------------------------------------------------------------------------
(* A session in which the user edits trend tokens *)

\* the loaded table of the token session: two clusters, so two cards
TokenTable ==
    <<Row("2", 125, 20000, 100, 50, 700), Row("1", 700, 130000, 600, 350, 200)>>

\* what the user types: empty, blank, padded and plain tokens; four distinct
\* tokens remain after trimming, one more than a cluster holds
TokenInputs ==
    { <<>>, <<" ">>, <<"a">>, <<" ", "a", " ">>, <<"b">>, <<"b", " ">>,
      <<"c">>, <<"a", " ", "b">> }

\* the session after TokenTable is uploaded, motion-focused is chosen for
\* cluster 1 and its spec is built
InitTokens ==
    /\ interpretationData = Some(TokenTable)
    /\ clusterResults = Null
    /\ clusterStats \in {Some(l) : l \in calculateClusterStats(TokenTable)}
    /\ selectedCluster = Some("1")
    /\ selectedApproaches = Put(<<>>, "1", "motion-focused")
    /\ trendTokens = <<>>
    /\ generationSpecs =
          Put(<<>>, "1", BuildSpec("1", Val(FindStats("1")), "motion-focused", <<>>))
    /\ pending = {}
    /\ event = Event("generateSpec", "built")

NextTokens ==
    \/ \E c \in SessionClusters, t \in TokenInputs : addTrendToken(c, t)
    \/ \E c \in SessionClusters, i \in 0..(MaxTokens - 1) : removeTrendToken(c, i)

SpecTokens == InitTokens /\ [][NextTokens]_vars

----------------------------------------------------------------------------
(* Uploads of one interpretation table each: calculateClusterStats on every
   small table *)

\* the most rows of an uploaded table
MaxRows == 3

\* the ids of the cluster column: index keys, a negative number, a label and
\* an inherited name
AggClusters == {"2", "10", "-1", "a", "constructor"}

\* the metric cells of a row: all present, all absent, some absent
AggRows ==
    {Row(c, 700, 130000, 600, 350, 200) : c \in AggClusters}
    \cup {Row(c, Missing, Missing, Missing, Missing, Missing) : c \in AggClusters}
    \cup {Row(c, 125, Missing, 100, 0, Missing) : c \in AggClusters}

AggTables == UNION {[1..n -> AggRows] : n \in 0..MaxRows}

\* the session right after handleFileUpload(file, 'interpretation')
InitAgg ==
    /\ interpretationData = Null
    /\ clusterResults = Null
    /\ clusterStats = Null
    /\ selectedCluster = Null
    /\ generationSpecs = <<>>
    /\ selectedApproaches = <<>>
    /\ trendTokens = <<>>
    /\ \E data \in AggTables :
          pending = {[file |-> Readable(data), type |-> "interpretation"]}
    /\ event = Event("handleFileUpload", "parsing")

NextAgg == \E job \in pending : complete(job)

SpecAgg == InitAgg /\ [][NextAgg]_vars

----------------------------------------------------------------------------
(* Uploads of three-cluster tables whose middle cluster takes every
   combination of radar positions *)

\* raw values of the middle cluster between the 0 and 1000 of the other two:
\* they normalize to 30, 40, 50, 60, 65, 70 and 75, the thresholds of the
\* cascade and a value on each side of them
MidValues == {300, 400, 500, 600, 650, 700, 750}

RadarTables ==
    { <<Row("1", 0, 0, 0, 0, 0),
        Row("2", m, c, r, s, d),
        Row("10", 1000, 1000, 1000, 1000, 1000)>> :
        m \in MidValues, c \in MidValues, r \in MidValues, s \in MidValues,
        d \in MidValues }

InitRadar ==
    /\ interpretationData = Null
    /\ clusterResults = Null
    /\ clusterStats = Null
    /\ selectedCluster = Null
    /\ generationSpecs = <<>>
    /\ selectedApproaches = <<>>
    /\ trendTokens = <<>>
    /\ \E data \in RadarTables :
          pending = {[file |-> Readable(data), type |-> "interpretation"]}
    /\ event = Event("handleFileUpload", "parsing")

SpecRadar == InitRadar /\ [][NextAgg]_vars

----------------------------------------------------------------------------
(* A session that builds specs for the cluster of the rows with motion_mean
   0.1, 0.3, 0.5 and cut_rate_per_min 20, 40, 60 *)

\* the three rows in positions p (motion_mean) and q (cut_rate_per_min)
ExampleRows(p, q) ==
    [i \in 1..3 |->
        Row("1", <<100, 300, 500>>[p[i]], <<20000, 40000, 60000>>[q[i]],
            100, 50, 300)]

\* the orders of three things
Orders == {p \in [1..3 -> 1..3] : \A i, j \in 1..3 : p[i] = p[j] => i = j}

\* the tables of the three rows, in every order and pairing of the values,
\* alone or after a row of another cluster
ExampleTables ==
    {ExampleRows(p, q) : p \in Orders, q \in Orders}
    \cup {<<Row("2", 700, 130000, 600, 350, 200)>> \o ExampleRows(p, q) :
             p \in Orders, q \in Orders}

\* the token typed in the build session
BuildTokens == { <<"a">> }

\* the session after a table is uploaded, an approach is chosen for cluster
\* 1 and its spec is built
InitBuild ==
    /\ \E data \in ExampleTables :
          /\ interpretationData = Some(data)
          /\ clusterStats \in {Some(l) : l \in calculateClusterStats(data)}
    /\ clusterResults = Null
    /\ selectedCluster = Some("1")
    /\ trendTokens = <<>>
    /\ \E a \in Approaches :
          /\ selectedApproaches = Put(<<>>, "1", a)
          /\ generationSpecs =
                Put(<<>>, "1", BuildSpec("1", Val(FindStats("1")), a, <<>>))
    /\ pending = {}
    /\ event = Event("generateSpec", "built")

NextBuild ==
    \/ \E a \in Approaches : handleApproachChange("1", a)
    \/ \E t \in BuildTokens : addTrendToken("1", t)
    \/ \E i \in 0..(MaxTokens - 1) : removeTrendToken("1", i)
    \/ clickGenerateSpec("1")

SpecBuild == InitBuild /\ [][NextBuild]_vars

----------------------------------------------------------------------------
(* Properties *)

\* the rows of a table whose cluster cell is c, in table order
RowsOf(data, c) == SelectSeq(data, LAMBDA row : row.cluster = c)

\* the last handler was the complete callback of an interpretation upload
\* that ran calculateClusterStats to its end
StatsJustComputed == event = Event("complete", "interpretation")

NoDuplicates(l) == \A i, j \in 1..Len(l) : l[i] = l[j] => i = j

\* C1: every cluster's token list holds at most 3 tokens, no token twice,
\* and only tokens that are non-empty and carry no leading or trailing blank
C1_TokenListsWellFormed ==
    \A c \in DOMAIN trendTokens :
        LET l == trendTokens[c]
        IN /\ Len(l) <= 3
           /\ NoDuplicates(l)
           /\ \A i \in 1..Len(l) :
                 /\ l[i] # <<>>
                 /\ l[i][1] # " "
                 /\ l[i][Len(l[i])] # " "

\* C1 witness: after a removal one cluster holds three tokens, one of them
\* with an inner blank, and the other cluster holds two
C1_Witness ==
    /\ event = Event("removeTrendToken", "done")
    /\ \E c, d \in DOMAIN trendTokens :
          /\ c # d
          /\ Len(trendTokens[c]) = 3
          /\ Includes(trendTokens[c], <<"a", " ", "b">>)
          /\ Len(trendTokens[d]) = 2

\* the three cases in which addTrendToken returns early
AddIsRejected(c, t) ==
    \/ Len(TokensOf(c)) >= 3
    \/ Includes(TokensOf(c), Trim(t))
    \/ Trim(t) = <<>>

\* C2: addTrendToken on a cluster that holds 3 tokens, or with a token whose
\* trimmed form the cluster holds, or with a blank token, changes neither the
\* token map nor the approach map, SpecStore or ClusterStats, and ends as an
\* ordinary early return
C2_RejectedAddIsNoOp ==
    [][\A c \in SessionClusters, t \in TokenInputs :
          (AddIsRejected(c, t) /\ addTrendToken(c, t))
             => /\ UNCHANGED <<trendTokens, selectedApproaches,
                              generationSpecs, clusterStats>>
                /\ event'.outcome \in {"empty", "full", "duplicate"}]_vars

\* C2 witness: a fourth token was just refused on a cluster holding three,
\* while SpecStore holds a spec
C2_Witness ==
    /\ event = Event("addTrendToken", "full")
    /\ \E c \in DOMAIN trendTokens : Len(trendTokens[c]) = 3
    /\ DOMAIN generationSpecs # {}

\* the SpecStore entry of a cluster, Null when there is none
SpecEntry(store, c) == IF c \in DOMAIN store THEN Some(store[c]) ELSE Null

\* C3: SpecStore gets or changes an entry for a cluster only in a step taken
\* while an approach is selected for that cluster, and a click on the build
\* button with no approach selected leaves SpecStore and the focus unchanged
\* and runs no handler
C3_BuildNeedsApproach ==
    [][\A c \in SessionClusters :
          /\ SpecEntry(generationSpecs', c) # SpecEntry(generationSpecs, c)
                => ~NoApproach(c)
          /\ (NoApproach(c) /\ clickGenerateSpec(c))
                => /\ UNCHANGED <<generationSpecs, selectedCluster>>
                   /\ event' = Event("clickGenerateSpec", "disabled")]_vars

\* C3 witness: the build button of one cluster was just clicked in vain,
\* while another cluster, with an approach, has its spec
C3_Witness ==
    /\ event = Event("clickGenerateSpec", "disabled")
    /\ \E c \in SessionClusters : Rendered(c) /\ NoApproach(c)
    /\ \E d \in DOMAIN generationSpecs :
          generationSpecs[d].generation_approach = selectedApproaches[d]

\* the sum of row.field || 0 over the rows of a table
RECURSIVE FieldSum(_, _)
FieldSum(rows, field) ==
    IF rows = <<>> THEN 0
    ELSE (IF rows[1][field] = Missing THEN 0 ELSE rows[1][field])
         + FieldSum(Tail(rows), field)

\* list is the aggregation of the table data and of nothing else
IsAggregationOf(list, data) ==
    /\ {list[i].cluster : i \in 1..Len(list)} = {data[i].cluster : i \in 1..Len(data)}
    /\ NoDuplicates([i \in 1..Len(list) |-> list[i].cluster])
    /\ \A i \in 1..Len(list) :
          LET rows == RowsOf(data, list[i].cluster)
          IN /\ list[i].count = Len(rows)
             /\ list[i].videos = rows
             /\ list[i].avg_motion = Rat(FieldSum(rows, "motion_mean"), Len(rows))
             /\ list[i].avg_cut_rate = Rat(FieldSum(rows, "cut_rate_per_min"), Len(rows))
             /\ list[i].avg_audio_rms_mean = Rat(FieldSum(rows, "audio_rms_mean"), Len(rows))
             /\ list[i].avg_audio_rms_std = Rat(FieldSum(rows, "audio_rms_std"), Len(rows))
             /\ list[i].avg_visual_density = Rat(FieldSum(rows, "visual_density"), Len(rows))

\* C4: after the complete callback of an interpretation upload, ClusterStats
\* is the aggregation of the uploaded table alone
C4_StatsOfLatestUpload ==
    (event.op = "complete" /\ event.outcome # "cluster")
        => /\ ~IsNull(clusterStats)
           /\ IsAggregationOf(Val(clusterStats), Val(interpretationData))

\* C5: the error callback of a failed parse leaves ClusterStats, SpecStore,
\* the approach map and the token map as they were, and the session can take
\* a further step afterwards
C5_ParseErrorKeepsState ==
    [][\A job \in pending :
          error(job)
             => /\ UNCHANGED <<clusterStats, generationSpecs,
                              selectedApproaches, trendTokens>>
                /\ (ENABLED Next)']_vars

\* C5 witness: a parse error was just logged in a session that has
\* statistics, a chosen approach, a token and a built spec
C5_Witness ==
    /\ event = Event("error", "logged")
    /\ ~IsNull(clusterStats)
    /\ DOMAIN generationSpecs # {}
    /\ DOMAIN selectedApproaches # {}
    /\ \E c \in DOMAIN trendTokens : trendTokens[c] # <<>>

\* a < b for two cluster ids compared as numbers; false when one is no number
NumLess(a, b) == IsNumeric(a) /\ IsNumeric(b) /\ ToNumber(a) < ToNumber(b)

StrictlyAscending(list) ==
    \A i \in 1..(Len(list) - 1) : NumLess(list[i].cluster, list[i + 1].cluster)

ClusterIds(list) == [i \in 1..Len(list) |-> list[i].cluster]

\* C6 as stated: the list produced from any table is strictly ascending by
\* cluster id compared as a number, without a repeated cluster id
C6_SortedForEveryTable ==
    StatsJustComputed
        => /\ StrictlyAscending(Val(clusterStats))
           /\ NoDuplicates(ClusterIds(Val(clusterStats)))

\* C6 amended: the list produced from a table whose cluster ids are all
\* numbers is strictly ascending by cluster id, without a repeated cluster id
C6_SortedForNumericIds ==
    (/\ StatsJustComputed
     /\ \A k \in 1..Len(Val(interpretationData)) :
           IsNumeric(Val(interpretationData)[k].cluster))
        => /\ StrictlyAscending(Val(clusterStats))
           /\ NoDuplicates(ClusterIds(Val(clusterStats)))

\* C6 witness: a table listing the clusters 10, 2, -1 in that order was
\* aggregated to three entries
C6_Witness ==
    /\ StatsJustComputed
    /\ Len(Val(clusterStats)) = 3
    /\ ClusterIds(Val(interpretationData)) = <<"10", "2", "-1">>

\* C7: each entry's count is the number of rows of its cluster, at least 1,
\* and the counts add up to the number of rows
C7_CountIsRowCount ==
    StatsJustComputed
        => LET list == Val(clusterStats)
               data == Val(interpretationData)
           IN /\ \A i \in 1..Len(list) :
                    /\ list[i].count =
                          Cardinality({k \in 1..Len(data) :
                                          data[k].cluster = list[i].cluster})
                    /\ list[i].count >= 1
              /\ SumSeq([i \in 1..Len(list) |-> list[i].count]) = Len(data)

\* C7 witness: two clusters, one of them counting two rows of which one
\* has no motion_mean
C7_Witness ==
    /\ StatsJustComputed
    /\ Len(Val(clusterStats)) = 2
    /\ \E i \in 1..2 :
          /\ Val(clusterStats)[i].count = 2
          /\ \E k \in 1..2 : Val(clusterStats)[i].videos[k].motion_mean = Missing

\* every row of rows lacks the field, some row of rows lacks the field
AllLack(rows, field) == \A k \in 1..Len(rows) : rows[k][field] = Missing
SomeLack(rows, field) == \E k \in 1..Len(rows) : rows[k][field] = Missing

\* C8: an average is the sum of the values present over the number of all
\* rows of the cluster; a metric that some row lacks has minimum 0 (no
\* value is negative); a metric that every row lacks has average, minimum
\* and maximum 0
C8_MissingCountsAsZero ==
    StatsJustComputed
        => LET list == Val(clusterStats)
               data == Val(interpretationData)
           IN \A i \in 1..Len(list) :
                 LET e == list[i]
                     rows == RowsOf(data, e.cluster)
                     ok(field, avg) ==
                         /\ e.count = Len(rows)
                         /\ avg.den = Len(rows)
                         /\ avg.num = FieldSum(rows, field)
                         /\ AllLack(rows, field) => avg.num = 0
                     okRange(field, min, max) ==
                         /\ SomeLack(rows, field) => min = 0
                         /\ AllLack(rows, field) => (min = 0 /\ max = 0)
                 IN /\ ok("motion_mean", e.avg_motion)
                    /\ ok("cut_rate_per_min", e.avg_cut_rate)
                    /\ ok("audio_rms_mean", e.avg_audio_rms_mean)
                    /\ ok("audio_rms_std", e.avg_audio_rms_std)
                    /\ ok("visual_density", e.avg_visual_density)
                    /\ okRange("motion_mean", e.min_motion, e.max_motion)
                    /\ okRange("cut_rate_per_min", e.min_cut_rate, e.max_cut_rate)
                    /\ okRange("visual_density", e.min_visual_density,
                               e.max_visual_density)

\* C8 witness: a cluster of two rows that both lack cut_rate_per_min, one of
\* them having motion_mean and the other not
C8_Witness ==
    /\ StatsJustComputed
    /\ \E i \in 1..Len(Val(clusterStats)) :
          LET e == Val(clusterStats)[i]
          IN /\ e.count = 2
             /\ AllLack(e.videos, "cut_rate_per_min")
             /\ SomeLack(e.videos, "motion_mean")
             /\ ~AllLack(e.videos, "motion_mean")
             /\ e.avg_cut_rate.num = 0
             /\ e.avg_motion.num > 0

\* the ClusterStats field behind each of the five radar points, in the order
\* of lines 271-275
RadarFields == <<"avg_motion", "avg_cut_rate", "avg_visual_density",
                 "avg_audio_rms_mean", "avg_audio_rms_std">>

\* the fraction v is the whole number n
IsExactly(v, n) == v.den > 0 /\ v.num = n * v.den

\* the k-th radar value of the entry s
RadarValue(s, k) == getRadarData(s)[k].value

\* C9: for a non-empty ClusterStats and each radar metric: when its averages
\* differ, every cluster gets a value within [0,100], a cluster with the
\* least average gets 0 and one with the greatest gets 100; when they are
\* all equal, every cluster gets 50
C9_RadarNormalization ==
    (StatsJustComputed /\ Val(clusterStats) # <<>>)
        => \A list \in {Val(clusterStats)} :
           \A radar \in {[i \in 1..Len(list) |-> getRadarData(list[i])]} :
              \A k \in 1..5 :
                 LET f == RadarFields[k]
                     allEqual == \A i, j \in 1..Len(list) :
                                    RatEq(list[i][f], list[j][f])
                 IN \A i \in 1..Len(list) :
                       LET v == radar[i][k].value
                       IN IF allEqual THEN IsExactly(v, 50)
                          ELSE /\ v.den > 0
                               /\ 0 <= v.num
                               /\ v.num <= 100 * v.den
                               /\ (\A j \in 1..Len(list) :
                                      ~RatLess(list[j][f], list[i][f]))
                                     => IsExactly(v, 0)
                               /\ (\A j \in 1..Len(list) :
                                      ~RatLess(list[i][f], list[j][f]))
                                     => IsExactly(v, 100)

\* C9 witness: three clusters, one of them strictly between 0 and 100 on a
\* metric, and a metric on which two of them share the least average
C9_Witness ==
    /\ StatsJustComputed
    /\ Len(Val(clusterStats)) = 3
    /\ \E k \in 1..5, i \in 1..3 :
          LET v == RadarValue(Val(clusterStats)[i], k)
          IN v.den > 0 /\ 0 < v.num /\ v.num < 100 * v.den
    /\ \E k \in 1..5, i, j \in 1..3 :
          /\ i # j
          /\ IsExactly(RadarValue(Val(clusterStats)[i], k), 0)
          /\ IsExactly(RadarValue(Val(clusterStats)[j], k), 0)

\* the five normalized values of an entry, read by position
NormalizedOf(s) ==
    [motion |-> RadarValue(s, 1), cutRate |-> RadarValue(s, 2),
     visualDensity |-> RadarValue(s, 3), audioVolume |-> RadarValue(s, 4),
     audioVariance |-> RadarValue(s, 5)]

\* the condition of rule i of the cascade
RuleHolds(i, m) ==
    CASE i = 1 -> m.motion.num > 60 * m.motion.den /\ m.cutRate.num > 60 * m.cutRate.den
      [] i = 2 -> m.visualDensity.num > 70 * m.visualDensity.den
      [] i = 3 -> /\ m.visualDensity.num > 50 * m.visualDensity.den
                  /\ m.motion.num < 40 * m.motion.den
      [] i = 4 -> m.motion.num > 70 * m.motion.den
      [] i = 5 -> \/ m.audioVariance.num > 70 * m.audioVariance.den
                  \/ m.audioVolume.num > 70 * m.audioVolume.den
      [] i = 6 -> TRUE

FirstRule(m) == CHOOSE i \in 1..6 : RuleHolds(i, m) /\ \A j \in 1..(i - 1) : ~RuleHolds(j, m)

\* approach and confidence of rule i
RuleOutcome(i) ==
    CASE i = 1 -> <<"motion-focused", "high">>
      [] i = 2 -> <<"image-conditioned", "high">>
      [] i = 3 -> <<"image-conditioned", "medium">>
      [] i = 4 -> <<"motion-focused", "medium">>
      [] i = 5 -> <<"text-driven", "medium">>
      [] i = 6 -> <<"text-driven", "low">>

\* C10: for every loaded cluster suggestApproach returns approach and
\* confidence of the first rule of the cascade 1..6 that its five normalized
\* values satisfy; with motion > 60 and cutRate > 60 that is
\* motion-focused/high whatever the other three values are
C10_FirstMatchingRule ==
    StatsJustComputed
        => \A i \in 1..Len(Val(clusterStats)) :
              LET s == Val(clusterStats)[i]
                  m == NormalizedOf(s)
                  got == suggestApproach(s)
              IN /\ <<got.approach, got.confidence>> = RuleOutcome(FirstRule(m))
                 /\ (m.motion.num > 60 * m.motion.den
                       /\ m.cutRate.num > 60 * m.cutRate.den)
                       => (got.approach = "motion-focused" /\ got.confidence = "high")

\* C10 witness: a cluster at motion 65, cutRate 65 and visualDensity 75 is
\* suggested motion-focused/high
C10_Witness ==
    /\ StatsJustComputed
    /\ \E i \in 1..Len(Val(clusterStats)) :
          LET s == Val(clusterStats)[i]
              m == NormalizedOf(s)
          IN /\ IsExactly(m.motion, 65)
             /\ IsExactly(m.cutRate, 65)
             /\ IsExactly(m.visualDensity, 75)
             /\ suggestApproach(s).approach = "motion-focused"
             /\ suggestApproach(s).confidence = "high"

\* the entry of ClusterStats for cluster 1
StatsOfOne == Val(FindStats("1"))

\* the aggregates of the rows 0.1, 0.3, 0.5 and 20, 40, 60: avg_motion 0.3,
\* min_motion 0.1, max_motion 0.5, avg_cut_rate 40
ExampleAggregates ==
    /\ ~IsNull(FindStats("1"))
    /\ IsExactly(StatsOfOne.avg_motion, 300)
    /\ StatsOfOne.min_motion = 100
    /\ StatsOfOne.max_motion = 500
    /\ IsExactly(StatsOfOne.avg_cut_rate, 40000)

\* C11 as stated: the cluster of the rows 0.1, 0.3, 0.5 and 20, 40, 60
\* aggregates to avg_motion 0.3, min_motion 0.1, max_motion 0.5 and
\* avg_cut_rate 40, and its spec has camera_movement "moderate" and pacing
\* "medium"
C11_ExampleModerateMedium ==
    /\ ExampleAggregates
    /\ "1" \in DOMAIN generationSpecs
          => LET m == generationSpecs["1"].base_prompt_components.motion_profile
             IN m.camera_movement = "moderate" /\ m.pacing = "medium"

\* C11 amended: the cluster of the rows 0.1, 0.3, 0.5 and 20, 40, 60
\* aggregates to avg_motion 0.3, min_motion 0.1, max_motion 0.5 and
\* avg_cut_rate 40, and its spec has camera_movement "static" and pacing
\* "slow"
C11_ExampleStaticSlow ==
    /\ ExampleAggregates
    /\ "1" \in DOMAIN generationSpecs
          => LET m == generationSpecs["1"].base_prompt_components.motion_profile
             IN m.camera_movement = "static" /\ m.pacing = "slow"

\* C11 witness: the spec of the cluster was just built as motion-focused
\* with a token, from a table that also holds a row of another cluster
C11_Witness ==
    /\ event = Event("generateSpec", "built")
    /\ Len(Val(clusterStats)) = 2
    /\ generationSpecs["1"].generation_approach = "motion-focused"
    /\ generationSpecs["1"].trend_tokens.tokens = << <<"a">> >>
    /\ generationSpecs["1"].constraints.sample_count = 3

\* no cluster is loaded: the list is absent, or it is the empty list that a
\* table of zero rows aggregates to
NothingLoaded == IsNull(clusterStats) \/ Val(clusterStats) = <<>>

\* entries a caller can hand to getRadarData and suggestApproach while no
\* cluster is loaded: those of an earlier table
StaleStats ==
    LET list == MapStats(ForEachRow(TokenTable, EmptyGroups))
    IN {list[i] : i \in 1..Len(list)}

\* C12: while the cluster list is absent or empty, getRadarData returns an
\* empty list, so no value that is not a number, and suggestApproach
\* returns nothing whose approach, confidence or reason is undefined
C12_NothingLoadedGivesEmptyResult ==
    NothingLoaded
        => \A stats \in StaleStats :
              /\ getRadarData(stats) = <<>>
              /\ \A k \in 1..Len(getRadarData(stats)) :
                    ~IsNaN(getRadarData(stats)[k].value)
              /\ suggestApproach(stats).approach # "undefined"
              /\ suggestApproach(stats).confidence # "undefined"
              /\ suggestApproach(stats).reason # "undefined"

\* the spec stored for cluster c was built from the approach and the tokens
\* that c has now (a spec records both, lines 185 and 213)
BuiltFromCurrentInputs(c) ==
    /\ c \in DOMAIN generationSpecs
    /\ generationSpecs[c].generation_approach = ApproachOrDefault(c)
    /\ generationSpecs[c].trend_tokens.tokens = TokensOf(c)

\* C13: building the spec of a cluster again, with the ClusterStats, the
\* approach and the tokens of its previous build, stores the document of
\* the previous build again and leaves SpecStore as it was
C13_RebuildIsIdempotent ==
    [][(BuiltFromCurrentInputs("1") /\ clickGenerateSpec("1"))
          => /\ event' = Event("generateSpec", "built")
             /\ generationSpecs'["1"] = generationSpecs["1"]
             /\ generationSpecs' = generationSpecs]_vars

\* C13 witness: the spec was built again after its first build and after a
\* token was added and removed, and holds the approach and the (empty) token
\* list of the cluster
C13_Witness ==
    /\ event = Event("generateSpec", "built")
    /\ "1" \in DOMAIN trendTokens
    /\ trendTokens["1"] = <<>>
    /\ BuiltFromCurrentInputs("1")

\* C14: SpecStore starts empty; the entry of a cluster changes only in a
\* build of that cluster, which stores the document of its current inputs;
\* uploads (also of a table without the cluster), their callbacks, approach
\* changes, token edits and builds of other clusters leave it as it was; no
\* key ever leaves SpecStore
C14_EntryChangesOnlyByOwnBuild ==
    /\ generationSpecs = <<>>
    /\ [][/\ DOMAIN generationSpecs \subseteq DOMAIN generationSpecs'
          /\ \A c \in DOMAIN generationSpecs \cup DOMAIN generationSpecs' :
                SpecEntry(generationSpecs', c) # SpecEntry(generationSpecs, c)
                   => /\ clickGenerateSpec(c)
                      /\ event' = Event("generateSpec", "built")
                      /\ selectedCluster' = Some(c)
                      /\ generationSpecs'[c] =
                            BuildSpec(c, Val(FindStats(c)), ApproachOrDefault(c),
                                      TokensOf(c))
          /\ event'.op \in {"handleFileUpload", "complete", "error",
                             "handleApproachChange", "addTrendToken",
                             "removeTrendToken"}
                => UNCHANGED generationSpecs
          /\ event' = Event("generateSpec", "built")
                => \A c \in DOMAIN generationSpecs :
                      selectedCluster' # Some(c)
                         => SpecEntry(generationSpecs', c) = Some(generationSpecs[c])
         ]_vars

\* C14 witness: SpecStore holds the spec of cluster 1 although the table
\* loaded now has no cluster 1, next to a spec of cluster 2 built from that
\* table, after a cluster-assignment upload and with a token on cluster 2
C14_Witness ==
    /\ ~IsNull(clusterStats)
    /\ ~Rendered("1")
    /\ DOMAIN generationSpecs = {"1", "2"}
    /\ generationSpecs["1"].constraints.sample_count = 1
    /\ generationSpecs["2"] =
          BuildSpec("2", Val(FindStats("2")), ApproachOrDefault("2"), TokensOf("2"))
    /\ TokensOf("2") # <<>>
    /\ ~IsNull(clusterResults)

\* C15: when exactly one cluster is loaded, suggestApproach returns
\* text-driven with confidence low for it, whatever its averages are; so a
\* suggestion of confidence high or medium, or of another approach than
\* text-driven, is made for a loaded cluster only when at least two
\* clusters are loaded
C15_SingleClusterIsTextDrivenLow ==
    StatsJustComputed
        => \A list \in {Val(clusterStats)} :
              \A i \in 1..Len(list) :
                 \A got \in {suggestApproach(list[i])} :
                    /\ Len(list) = 1
                          => (got.approach = "text-driven" /\ got.confidence = "low")
                    /\ (got.confidence \in {"high", "medium"}
                          \/ got.approach # "text-driven")
                          => Len(list) >= 2

\* C15 witness: the only loaded cluster has an average motion above 0.6 and
\* an average cut rate above 120, and is suggested text-driven/low
C15_Witness ==
    /\ StatsJustComputed
    /\ Len(Val(clusterStats)) = 1
    /\ Val(clusterStats)[1].count = 2
    /\ RatGreater(Val(clusterStats)[1].avg_motion, 600)
    /\ RatGreater(Val(clusterStats)[1].avg_cut_rate, 120000)
    /\ suggestApproach(Val(clusterStats)[1]).approach = "text-driven"
    /\ suggestApproach(Val(clusterStats)[1]).confidence = "low"

====
